---- MODULE Spec2Model ----
(***************************************************************************)
(* A model of youtube_dlc/extractor/vlive.py: the three extractors         *)
(* VLiveIE (login + single video), VLiveChannelIE (channel pagination)     *)
(* and VLivePlaylistIE (playlist page scraping).                           *)
(*                                                                         *)
(* One extraction is one behaviour: Init draws which extractor runs and    *)
(* its inputs (URL ids, credentials, the noplaylist parameter); every      *)
(* network request is one step, whose answer (a body or a failure) is      *)
(* drawn from a small set.  `requests` logs the requests in the order      *)
(* they are issued and `responses` the answer each one got, so             *)
(* responses[i] answers requests[i].                                       *)
(***************************************************************************)
EXTENDS Integers, Sequences, FiniteSets, TLC

VARIABLES
    ie,           \* the extractor that runs: "VLive", "VLiveChannel", "VLivePlaylist"
    pc,           \* the position in its code
    requests,     \* the requests issued so far, in order
    responses,    \* the answers they got, in order
    result,       \* what the extraction returned or raised
    email,        \* _get_login_info()[0]
    password,     \* _get_login_info()[1]
    video_id,     \* the id matched from the URL
    video,        \* post['officialVideo']
    inkey,        \* the access key of a VOD
    stream_url,   \* the adaptiveStreamUrl of a live broadcast
    noplaylist,   \* self._downloader.params.get('noplaylist')
    playlist_id,  \* the playlist id matched from the URL
    channel_code, \* the channel code matched from the URL
    channel_seq,  \* the decoded channelSeq
    channel_name, \* the channel's display name
    entries,      \* the url_results accumulated by VLiveChannelIE
    page_num      \* the page the channel loop is at

vars == <<ie, pc, requests, responses, result, email, password, video_id, video,
          inkey, stream_url, noplaylist, playlist_id, channel_code, channel_seq,
          channel_name, entries, page_num>>

(***************************************************************************)
(* Bounds of the model.                                                    *)
(***************************************************************************)
\* the channel has at most this many non-final pages
MaxPages == 2
\* a page of the channel lists at most this many videos
MaxVideosPerPage == 2
\* at most this many characters stand between the brackets of playlistVideoSeqs
MaxInner == 3

(***************************************************************************)
(* Python values.  None is Python's None; Missing is a key a dict does not *)
(* hold (d.get(k) gives None for it, d[k] raises KeyError).                *)
(***************************************************************************)
None == "<None>"
Missing == "<missing>"

\* dict.get(key) on a field drawn from the sets below
Get(v) == IF v = Missing THEN None ELSE v

NoCause == [kind |-> "none"]
HTTPError(code, body) == [kind |-> "HTTPError", code |-> code, body |-> body]
URLError == [kind |-> "URLError"]

\* an exception object
Exc(type, msg, expected, cause) ==
    [exc |-> type, msg |-> msg, expected |-> expected, cause |-> cause]

ExtractorError(msg, expected) == Exc("ExtractorError", msg, expected, NoCause)
KeyError(key) == Exc("KeyError", key, FALSE, NoCause)
TypeError == Exc("TypeError", "can only concatenate str", FALSE, NoCause)
ValueError == Exc("ValueError", "invalid JSON", FALSE, NoCause)

Pending == [kind |-> "pending"]
Raised(e) == [kind |-> "raised", exc |-> e]
Returned(v) == [kind |-> "returned", value |-> v]
\* what a function that ends without a return statement hands back
NoneValue == [_type |-> "None"]

(***************************************************************************)
(* What the network can answer.                                            *)
(***************************************************************************)
\* the body of an HTTP error answer: JSON with a message, JSON without, not JSON
ErrorBodies ==
    { [json |-> TRUE, message |-> m] : m \in {"Only for CH+ subscribers", "Please sign in", Missing} }
    \cup { [json |-> FALSE, message |-> Missing] }

\* the failures _download_json / _download_webpage / _request_webpage raise (fatal=True)
Failures ==
    { Exc("ExtractorError", "Unable to download", FALSE, HTTPError(403, b)) : b \in ErrorBodies }
    \cup { Exc("ExtractorError", "Unable to download", FALSE,
               HTTPError(404, [json |-> FALSE, message |-> Missing])),
           Exc("ExtractorError", "Unable to download", FALSE, URLError) }

Fail(e) == [ok |-> FALSE, exc |-> e]
Ok(body) == [ok |-> TRUE, body |-> body]

VideoIds == {"1326", "22867"}
Emails == {None, "me@example.org"}
Passwords == {None, "secret"}

\* officialVideo records: the fields the extractor reads
VideoTypes == {"VOD", "LIVE", "PLAYLIST", None}
Statuses == {"ON_AIR", "ENDED", "RESERVED", "CANCELED", None}
ExposeStatuses == {"CANCEL", "PUBLIC", None}
VodIds == {"vod-A", Missing}
Titles == {"Broadcast", Missing}

VideoRecords ==
    [type : VideoTypes, status : Statuses, exposeStatus : ExposeStatuses,
     vodId : VodIds, title : Titles]

NoVideo == [type |-> None, status |-> None, exposeStatus |-> None,
            vodId |-> Missing, title |-> Missing]

Inkeys == {"inkey-1", "inkey-2", Missing}
StreamUrls == {"https://live.example/a.m3u8", Missing}

\* the login flag x['message']['login'] of /auth/loginInfo, as (Python type, truthiness)
LoginFlags ==
    { [type |-> "bool", truthy |-> TRUE], [type |-> "bool", truthy |-> FALSE],
      [type |-> "str", truthy |-> TRUE], [type |-> "int", truthy |-> TRUE],
      [type |-> "missing", truthy |-> FALSE] }

(***************************************************************************)
(* VLiveBaseIE / VLiveIE                                                   *)
(***************************************************************************)
_APP_ID == "8c6cc7b45d2568fb668be6e05b6e5a3b"

LOGIN_URL == "https://www.vlive.tv/auth/email/login"

PostFields == "author{nickname},channel{channelCode,channelName},officialVideo{commentCount,exposeStatus,likeCount,playCount,playTime,status,title,type,vodId}"

\* path_template % video_id, the template given as <<before %s, after %s>>
Format(template, id) == template[1] \o id \o template[2]

PostTemplate == <<"post/v1.0/officialVideoPost-", "">>
InkeyTemplate == <<"video/v1.0/vod/", "/inkey">>
PlayInfoTemplate == <<"old/v3/live/", "/playInfo">>

\* the request VLiveIE._call_api issues
_call_api(path_template, id, fields) ==
    [method |-> "GET",
     url |-> "https://www.vlive.tv/globalv-web/vam-web/" \o Format(path_template, id),
     referer |-> "https://www.vlive.tv/",
     query |-> IF fields # None THEN [appId |-> _APP_ID, fields |-> fields]
                                ELSE [appId |-> _APP_ID]]

\* `None in (email, password)`: _login returns at once
NoCredentials_Both(e, p) == e = None /\ p = None
NoCredentials(e, p) == e = None \/ p = None

\* try_get(login_info, lambda x: x['message']['login'], bool) or False
is_logged_in_Truthy(flag) == flag.truthy
is_logged_in(flag) == IF flag.type = "bool" THEN flag.truthy ELSE FALSE

\* InfoExtractor.raise_login_required(msg)
raise_login_required(msg) ==
    ExtractorError(msg \o ". Use --username and --password or --netrc to provide account credentials.", TRUE)

\* the except clause around the post-metadata call: what is raised for failure e
HandlePostError_AnyHTTP(e) ==
    IF e.cause.kind = "HTTPError"
    THEN IF ~e.cause.body.json THEN ValueError
         ELSE IF e.cause.body.message = Missing THEN KeyError("message")
         ELSE raise_login_required(e.cause.body.message)
    ELSE e
HandlePostError(e) ==
    IF e.cause.kind = "HTTPError" /\ e.cause.code = 403
    THEN IF ~e.cause.body.json THEN ValueError
         ELSE IF e.cause.body.message = Missing THEN KeyError("message")
         ELSE raise_login_required(e.cause.body.message)
    ELSE e


\* InfoExtractor._live_title(name): the raw title with the "is live" annotation
_live_title(name) == name \o " (live)"

\* get_common_fields(): the descriptor fields read from the post
get_common_fields(v) == [title |-> Get(v.title)]

\* which arm of the type/status chain of _real_extract a record takes
Branch(v) ==
    IF Get(v.type) = "VOD" THEN "vod"
    ELSE IF Get(v.type) = "LIVE"
         THEN IF Get(v.status) = "ON_AIR" THEN "on_air" ELSE "status_error"
         ELSE "fallthrough"

\* the error a LIVE record that is not ON_AIR ends with
LiveStatusError_CancelFirst(status, exposeStatus) ==
    IF exposeStatus = "CANCEL"
    THEN ExtractorError("We are sorry, but the live broadcast has been canceled.", TRUE)
    ELSE IF status = "ENDED"
    THEN ExtractorError("Uploading for replay. Please wait...", TRUE)
    ELSE IF status = "RESERVED"
    THEN ExtractorError("Coming soon!", TRUE)
    ELSE IF status = None THEN TypeError
    ELSE ExtractorError("Unknown status " \o status, FALSE)
LiveStatusError(status, exposeStatus) ==
    IF status = "ENDED"
    THEN ExtractorError("Uploading for replay. Please wait...", TRUE)
    ELSE IF status = "RESERVED"
    THEN ExtractorError("Coming soon!", TRUE)
    ELSE IF exposeStatus = "CANCEL"
    THEN ExtractorError("We are sorry, but the live broadcast has been canceled.", TRUE)
    ELSE IF status = None THEN TypeError
    ELSE ExtractorError("Unknown status " \o status, FALSE)

\* the call self._extract_video_info(video_id, vod_id, inkey) of the shared extractor
_extract_video_info_VideoIdAsVodId(id, vod_id, key) ==
    [method |-> "_extract_video_info", args |-> <<id, id, key>>]
_extract_video_info(id, vod_id, key) ==
    [method |-> "_extract_video_info", args |-> <<id, vod_id, key>>]

\* the call self._extract_m3u8_formats(stream_url, video_id, 'mp4')
_extract_m3u8_formats(url, id) ==
    [method |-> "_extract_m3u8_formats", args |-> <<url, id, "mp4">>]

\* what the shared extractor returns for a call: the id it was given, formats of that call
NaverInfo(call) == [id |-> call.args[1], formats |-> call.args]

\* the descriptor of the VOD arm: merge_dicts(get_common_fields(), info)
VodDescriptor(v, info) ==
    [_type |-> "video", id |-> info.id, title |-> get_common_fields(v).title,
     formats |-> info.formats]

\* the descriptor of the ON_AIR arm: the common fields updated with title, id, formats, is_live
LiveDescriptor_NoLiveFlag(v, id, formats) ==
    [_type |-> "video", id |-> id, title |-> _live_title(v.title),
     formats |-> formats, is_live |-> FALSE]
LiveDescriptor(v, id, formats) ==
    [_type |-> "video", id |-> id, title |-> _live_title(v.title),
     formats |-> formats, is_live |-> TRUE]

Issue(req, resp) ==
    /\ requests' = Append(requests, req)
    /\ responses' = Append(responses, resp)

AnswersOf(bodies, failures) == { Ok(b) : b \in bodies } \cup { Fail(e) : e \in failures }
Answers(bodies) == AnswersOf(bodies, Failures)

ChannelVars == <<channel_code, channel_seq, channel_name, entries, page_num>>
PlaylistVars == <<noplaylist, playlist_id>>
LoginVars == <<email, password>>

\* _login with the email or the password missing: returns at once
LoginSkip ==
    /\ ie = "VLive" /\ pc = "login"
    /\ NoCredentials(email, password)
    /\ pc' = "extract"
    /\ UNCHANGED <<ie, requests, responses, result, LoginVars, video_id, video, inkey,
                   stream_url, PlaylistVars, ChannelVars>>

\* _login: self._request_webpage(LOGIN_URL, ...), the fetch that sets the cookies
LoginCookies ==
    /\ ie = "VLive" /\ pc = "login"
    /\ ~NoCredentials(email, password)
    /\ \E r \in Answers({"<login page>"}) :
          /\ Issue([method |-> "GET", url |-> LOGIN_URL], r)
          /\ IF r.ok THEN pc' = "login_form" /\ result' = result
                     ELSE pc' = "done" /\ result' = Raised(r.exc)
    /\ UNCHANGED <<ie, LoginVars, video_id, video, inkey, stream_url, PlaylistVars, ChannelVars>>

\* _login: self._download_webpage(LOGIN_URL, ..., data=...), the form submission
LoginForm ==
    /\ ie = "VLive" /\ pc = "login_form"
    /\ \E r \in Answers({"<logged in page>"}) :
          /\ Issue([method |-> "POST", url |-> LOGIN_URL,
                    data |-> [email |-> email, pwd |-> password],
                    referer |-> LOGIN_URL], r)
          /\ IF r.ok THEN pc' = "login_info" /\ result' = result
                     ELSE pc' = "done" /\ result' = Raised(r.exc)
    /\ UNCHANGED <<ie, LoginVars, video_id, video, inkey, stream_url, PlaylistVars, ChannelVars>>

\* _login: `if not is_logged_in(): raise ExtractorError('Unable to log in', expected=True)`
LoginInfo ==
    /\ ie = "VLive" /\ pc = "login_info"
    /\ \E r \in Answers(LoginFlags) :
          /\ Issue([method |-> "GET", url |-> "https://www.vlive.tv/auth/loginInfo",
                    referer |-> "https://www.vlive.tv/home"], r)
          /\ IF ~r.ok THEN pc' = "done" /\ result' = Raised(r.exc)
             ELSE IF is_logged_in(r.body) THEN pc' = "extract" /\ result' = result
             ELSE pc' = "done" /\ result' = Raised(ExtractorError("Unable to log in", TRUE))
    /\ UNCHANGED <<ie, LoginVars, video_id, video, inkey, stream_url, PlaylistVars, ChannelVars>>

\* _real_extract: the post-metadata call and its except clause
CallPost ==
    /\ ie = "VLive" /\ pc = "extract"
    /\ \E r \in Answers(VideoRecords) :
          /\ Issue(_call_api(PostTemplate, video_id, PostFields), r)
          /\ IF r.ok THEN pc' = "dispatch" /\ video' = r.body /\ result' = result
                     ELSE pc' = "done" /\ video' = video /\ result' = Raised(HandlePostError(r.exc))
    /\ UNCHANGED <<ie, LoginVars, video_id, inkey, stream_url, PlaylistVars, ChannelVars>>

\* the VOD arm: the inkey call, then vod_id = video['vodId']
VodInkey ==
    /\ ie = "VLive" /\ pc = "dispatch" /\ Branch(video) = "vod"
    /\ \E r \in Answers(Inkeys) :
          /\ Issue(_call_api(InkeyTemplate, video_id, None), r)
          /\ IF ~r.ok THEN pc' = "done" /\ inkey' = inkey /\ result' = Raised(r.exc)
             ELSE IF r.body = Missing
             THEN pc' = "done" /\ inkey' = inkey /\ result' = Raised(KeyError("inkey"))
             ELSE IF video.vodId = Missing
             THEN pc' = "done" /\ inkey' = r.body /\ result' = Raised(KeyError("vodId"))
             ELSE pc' = "vod_extract" /\ inkey' = r.body /\ result' = result
    /\ UNCHANGED <<ie, LoginVars, video_id, video, stream_url, PlaylistVars, ChannelVars>>

\* the VOD arm: the shared extractor, and the merge of its output
VodExtract ==
    /\ ie = "VLive" /\ pc = "vod_extract"
    /\ \E r \in Answers({"<manifest>"}) :
          /\ Issue(_extract_video_info(video_id, video.vodId, inkey), r)
          /\ pc' = "done"
          /\ result' = IF ~r.ok THEN Raised(r.exc)
                       ELSE Returned(VodDescriptor(video,
                                NaverInfo(_extract_video_info(video_id, video.vodId, inkey))))
    /\ UNCHANGED <<ie, LoginVars, video_id, video, inkey, stream_url, PlaylistVars, ChannelVars>>

\* the ON_AIR arm: the playInfo call
LivePlayInfo ==
    /\ ie = "VLive" /\ pc = "dispatch" /\ Branch(video) = "on_air"
    /\ \E r \in Answers(StreamUrls) :
          /\ Issue(_call_api(PlayInfoTemplate, video_id, None), r)
          /\ IF ~r.ok THEN pc' = "done" /\ stream_url' = stream_url /\ result' = Raised(r.exc)
             ELSE IF r.body = Missing
             THEN pc' = "done" /\ stream_url' = stream_url
                  /\ result' = Raised(KeyError("adaptiveStreamUrl"))
             ELSE pc' = "live_formats" /\ stream_url' = r.body /\ result' = result
    /\ UNCHANGED <<ie, LoginVars, video_id, video, inkey, PlaylistVars, ChannelVars>>

\* the ON_AIR arm: the manifest expansion, then the descriptor
LiveFormats ==
    /\ ie = "VLive" /\ pc = "live_formats"
    /\ \E r \in Answers({"<m3u8>"}) :
          /\ Issue(_extract_m3u8_formats(stream_url, video_id), r)
          /\ pc' = "done"
          /\ result' = IF ~r.ok THEN Raised(r.exc)
                       ELSE IF video.title = Missing THEN Raised(KeyError("title"))
                       ELSE Returned(LiveDescriptor(video, video_id, <<stream_url>>))
    /\ UNCHANGED <<ie, LoginVars, video_id, video, inkey, stream_url, PlaylistVars, ChannelVars>>

\* the other LIVE arms: ENDED, RESERVED, CANCEL, unknown
LiveStatus ==
    /\ ie = "VLive" /\ pc = "dispatch" /\ Branch(video) = "status_error"
    /\ pc' = "done"
    /\ result' = Raised(LiveStatusError(Get(video.status), Get(video.exposeStatus)))
    /\ UNCHANGED <<ie, requests, responses, LoginVars, video_id, video, inkey, stream_url,
                   PlaylistVars, ChannelVars>>

\* video_type is neither 'VOD' nor 'LIVE': the function ends without a return statement
FallThrough ==
    /\ ie = "VLive" /\ pc = "dispatch" /\ Branch(video) = "fallthrough"
    /\ pc' = "done"
    /\ result' = Returned(NoneValue)
    /\ UNCHANGED <<ie, requests, responses, LoginVars, video_id, video, inkey, stream_url,
                   PlaylistVars, ChannelVars>>


(***************************************************************************)
(* Helpers of the framework used by the two listing extractors.            *)
(***************************************************************************)
Digit(d) ==
    CASE d = 0 -> "0" [] d = 1 -> "1" [] d = 2 -> "2" [] d = 3 -> "3" [] d = 4 -> "4"
      [] d = 5 -> "5" [] d = 6 -> "6" [] d = 7 -> "7" [] d = 8 -> "8" [] d = 9 -> "9"

\* compat_str(n) of a non-negative int: its decimal digits
RECURSIVE compat_str(_)
compat_str(n) == IF n < 10 THEN Digit(n) ELSE compat_str(n \div 10) \o Digit(n % 10)

\* InfoExtractor.url_result(url, ie=VLiveIE.ie_key(), video_id=...)
url_result(url, id) == [_type |-> "url", url |-> url, ie_key |-> "VLive", id |-> id]

\* InfoExtractor.playlist_result(entries, playlist_id, playlist_title)
playlist_result(es, id, title) ==
    [_type |-> "playlist", entries |-> es, id |-> id, title |-> title]

(***************************************************************************)
(* VLiveChannelIE                                                          *)
(***************************************************************************)
maxNumOfRows == 100

ChannelCodes == {"FCD4B"}
ChannelSeqs == {"37", Missing}

\* an item of videoList: has says whether it holds the key videoSeq
NoSeq == [has |-> FALSE, videoSeq |-> 0]
WithSeq(n) == [has |-> TRUE, videoSeq |-> n]

\* the videoList values a page can carry; "list" is the only type try_get lets through
VideoLists ==
    { [type |-> "missing", items |-> <<>>],
      [type |-> "dict", items |-> <<WithSeq(7)>>],
      [type |-> "list", items |-> <<>>],
      [type |-> "list", items |-> <<WithSeq(7)>>],
      [type |-> "list", items |-> <<WithSeq(12), WithSeq(7)>>],
      [type |-> "list", items |-> <<WithSeq(7), WithSeq(7)>>],
      [type |-> "list", items |-> <<NoSeq, WithSeq(12)>>],
      [type |-> "list", items |-> <<WithSeq(0)>>],
      [type |-> "list", items |-> <<WithSeq(7), WithSeq(12), WithSeq(7)>>] }

\* the lists of VideoLists the bound on the page length admits
BoundedVideoLists == { l \in VideoLists : Len(l.items) <= MaxVideosPerPage }

PageBodies ==
    { [channelName |-> "MAMAMOO", videoList |-> l] : l \in BoundedVideoLists }
    \cup { [channelName |-> Missing, videoList |-> l] :
              l \in { m \in BoundedVideoLists : Len(m.items) # 1 } }

ChannelFailures ==
    { Exc("ExtractorError", "Unable to download", FALSE,
          HTTPError(404, [json |-> FALSE, message |-> Missing])) }

\* the request VLiveChannelIE._call_api issues
ChannelCallApi(path, channel_key_suffix, channel_value, query) ==
    [method |-> "GET",
     url |-> "http://api.vfan.vlive.tv/vproxy/channelplus/" \o path,
     query |-> query @@ ("app_id" :> _APP_ID) @@ (("channel" \o channel_key_suffix) :> channel_value)]

\* videos = try_get(video_list, lambda x: x['videoList'], list)
try_get_videoList(video_list) ==
    IF video_list.videoList.type = "list" THEN video_list.videoList.items ELSE <<>>

\* `if not videos: break`
PageHalts(videos) == videos = <<>>

\* the inner loop over a page: one url_result per item whose videoSeq is truthy
RECURSIVE PageEntries_Dedup(_, _)
PageEntries_Dedup(es, videos) ==
    IF videos = <<>> THEN es
    ELSE LET v == Head(videos)
             e == url_result("http://www.vlive.tv/video/" \o compat_str(v.videoSeq),
                             compat_str(v.videoSeq))
         IN  PageEntries_Dedup(
                 IF ~v.has \/ v.videoSeq = 0 \/ (\E i \in 1..Len(es) : es[i] = e)
                 THEN es ELSE Append(es, e),
                 Tail(videos))
RECURSIVE PageEntries(_, _)
PageEntries(es, videos) ==
    IF videos = <<>> THEN es
    ELSE LET v == Head(videos)
         IN  PageEntries(
                 IF ~v.has \/ v.videoSeq = 0 THEN es
                 ELSE Append(es, url_result(
                          "http://www.vlive.tv/video/" \o compat_str(v.videoSeq),
                          compat_str(v.videoSeq))),
                 Tail(videos))

\* the first page number of the loop: itertools.count(1)
FirstPage == 1

\* _real_extract: the decodeChannelCode call
DecodeChannelCode ==
    /\ ie = "VLiveChannel" /\ pc = "decode"
    /\ \E r \in AnswersOf(ChannelSeqs, ChannelFailures) :
          /\ Issue(ChannelCallApi("decodeChannelCode", "Code", channel_code, <<>>), r)
          /\ IF ~r.ok THEN pc' = "done" /\ channel_seq' = channel_seq /\ result' = Raised(r.exc)
             ELSE IF r.body = Missing
             THEN pc' = "done" /\ channel_seq' = channel_seq
                  /\ result' = Raised(KeyError("channelSeq"))
             ELSE pc' = "page" /\ channel_seq' = r.body /\ result' = result
    /\ UNCHANGED <<ie, LoginVars, video_id, video, inkey, stream_url, PlaylistVars,
                   channel_code, channel_name, entries, page_num>>

\* _real_extract: one turn of `for page_num in itertools.count(1)`
ChannelPage ==
    /\ ie = "VLiveChannel" /\ pc = "page"
    /\ \E r \in AnswersOf(PageBodies, ChannelFailures) :
          \* the channel has at most MaxPages pages that list videos
          /\ (r.ok /\ page_num > MaxPages) => try_get_videoList(r.body) = <<>>
          /\ Issue(ChannelCallApi("getChannelVideoList", "Seq", channel_seq,
                       [maxNumOfRows |-> maxNumOfRows, pageNo |-> page_num]), r)
          /\ IF ~r.ok
             THEN /\ pc' = "done" /\ result' = Raised(r.exc)
                  /\ UNCHANGED <<channel_name, entries, page_num>>
             ELSE LET name == IF channel_name = None THEN Get(r.body.channelName)
                                                     ELSE channel_name
                      videos == try_get_videoList(r.body)
                  IN  /\ channel_name' = name
                      /\ IF PageHalts(videos)
                         THEN /\ pc' = "done"
                              /\ result' = Returned(playlist_result(entries, channel_code, name))
                              /\ UNCHANGED <<entries, page_num>>
                         ELSE /\ pc' = "page" /\ result' = result
                              /\ entries' = PageEntries(entries, videos)
                              /\ page_num' = page_num + 1
    /\ UNCHANGED <<ie, LoginVars, video_id, video, inkey, stream_url, PlaylistVars,
                   channel_code, channel_seq>>


(***************************************************************************)
(* VLivePlaylistIE                                                         *)
(***************************************************************************)
_VIDEO_URL_TEMPLATE == <<"http://www.vlive.tv/video/", "">>

PlaylistIds == {"22912"}
PlaylistTitles == {"IDOL ROOM", Missing}

\* the characters that can stand between the brackets of `playlistVideoSeqs = [...]`
InnerChars == {"1", "2", ",", " "}

RECURSIVE SeqsUpTo(_, _)
SeqsUpTo(S, n) ==
    IF n = 0 THEN {<<>>}
    ELSE LET shorter == SeqsUpTo(S, n - 1)
         IN  shorter \cup { Append(q, c) : q \in shorter, c \in S }

\* a host page: whether it holds `playlistVideoSeqs = [`inner`]`, and its <h3> title
Webpages ==
    [assigned : BOOLEAN, inner : SeqsUpTo(InnerChars, MaxInner), title : PlaylistTitles]

\* _build_video_result(video_id, message)
_build_video_result(id) == url_result(Format(_VIDEO_URL_TEMPLATE, id), id)

\* _search_regex(r'playlistVideoSeqs\s*=\s*(\[[^]]+\])', webpage, default=None):
\* [^]]+ needs one character or more between the brackets
search_playlistVideoSeqs(webpage) ==
    IF webpage.assigned /\ Len(webpage.inner) >= 1
    THEN [matched |-> TRUE, text |-> webpage.inner]
    ELSE [matched |-> FALSE, text |-> <<>>]

DigitValue(c) == IF c = "1" THEN 1 ELSE 2

\* json.loads of '[' text ']': the list of ints, or a failure.  state is where the
\* parser stands: "start" (nothing but spaces yet), "num" (inside a number, cur),
\* "after" (a value is complete), "comma" (a comma awaits its value)
RECURSIVE ParseArray(_, _, _, _)
ParseArray(text, state, cur, acc) ==
    IF text = <<>>
    THEN CASE state = "start" -> [ok |-> TRUE, value |-> acc]
           [] state = "num" -> [ok |-> TRUE, value |-> Append(acc, cur)]
           [] state = "after" -> [ok |-> TRUE, value |-> acc]
           [] state = "comma" -> [ok |-> FALSE, value |-> <<>>]
    ELSE LET c == Head(text)
             rest == Tail(text)
         IN  IF c = " "
             THEN IF state = "num" THEN ParseArray(rest, "after", 0, Append(acc, cur))
                  ELSE ParseArray(rest, state, cur, acc)
             ELSE IF c = ","
             THEN IF state = "num" THEN ParseArray(rest, "comma", 0, Append(acc, cur))
                  ELSE IF state = "after" THEN ParseArray(rest, "comma", 0, acc)
                  ELSE [ok |-> FALSE, value |-> <<>>]
             ELSE IF state = "num" THEN ParseArray(rest, "num", cur * 10 + DigitValue(c), acc)
                  ELSE IF state = "after" THEN [ok |-> FALSE, value |-> <<>>]
                  ELSE ParseArray(rest, "num", DigitValue(c), acc)

\* self._parse_json(raw_item_ids, playlist_id)
_parse_json(text) == ParseArray(text, "start", 0, <<>>)

\* `if self._downloader.params.get('noplaylist')`
WantsJustVideo_Never(flag) == FALSE
WantsJustVideo(flag) == flag

\* _real_extract with --no-playlist: the single video, at once
PlaylistNoPlaylist ==
    /\ ie = "VLivePlaylist" /\ pc = "start"
    /\ WantsJustVideo(noplaylist)
    /\ pc' = "done"
    /\ result' = Returned(_build_video_result(video_id))
    /\ UNCHANGED <<ie, requests, responses, LoginVars, video_id, video, inkey, stream_url,
                   PlaylistVars, ChannelVars>>

\* _real_extract without it: the page fetch and everything after it
PlaylistFetch ==
    /\ ie = "VLivePlaylist" /\ pc = "start"
    /\ ~WantsJustVideo(noplaylist)
    /\ \E r \in Answers(Webpages) :
          /\ Issue([method |-> "GET",
                    url |-> "http://www.vlive.tv/video/" \o video_id \o "/playlist/" \o playlist_id], r)
          /\ pc' = "done"
          /\ result' =
                IF ~r.ok THEN Raised(r.exc)
                ELSE LET raw_item_ids == search_playlistVideoSeqs(r.body)
                         item_ids == _parse_json(raw_item_ids.text)
                     IN  IF ~raw_item_ids.matched THEN Returned(_build_video_result(video_id))
                         ELSE IF ~item_ids.ok
                         THEN Raised(ExtractorError("Failed to parse JSON", FALSE))
                         ELSE Returned(playlist_result(
                                  [i \in 1..Len(item_ids.value) |->
                                      url_result(Format(_VIDEO_URL_TEMPLATE,
                                                        compat_str(item_ids.value[i])),
                                                 compat_str(item_ids.value[i]))],
                                  playlist_id, Get(r.body.title)))
    /\ UNCHANGED <<ie, LoginVars, video_id, video, inkey, stream_url, PlaylistVars, ChannelVars>>

(***************************************************************************)
(* The specification.                                                      *)
(***************************************************************************)
Idle ==
    /\ requests = <<>> /\ responses = <<>> /\ result = Pending
    /\ video = NoVideo /\ inkey = None /\ stream_url = None
    /\ channel_seq = None /\ channel_name = None /\ entries = <<>> /\ page_num = FirstPage

InitVLive ==
    /\ ie = "VLive" /\ pc = "login"
    /\ email \in Emails /\ password \in Passwords /\ video_id \in VideoIds
    /\ noplaylist = FALSE /\ playlist_id = None /\ channel_code = None

InitChannel ==
    /\ ie = "VLiveChannel" /\ pc = "decode"
    /\ channel_code \in ChannelCodes
    /\ email = None /\ password = None /\ video_id = None
    /\ noplaylist = FALSE /\ playlist_id = None

InitPlaylist ==
    /\ ie = "VLivePlaylist" /\ pc = "start"
    /\ video_id \in VideoIds /\ playlist_id \in PlaylistIds /\ noplaylist \in BOOLEAN
    /\ email = None /\ password = None /\ channel_code = None

Init == Idle /\ (InitVLive \/ InitChannel \/ InitPlaylist)

Next ==
    \/ LoginSkip
    \/ LoginCookies
    \/ LoginForm
    \/ LoginInfo
    \/ CallPost
    \/ VodInkey
    \/ VodExtract
    \/ LivePlayInfo
    \/ LiveFormats
    \/ LiveStatus
    \/ FallThrough
    \/ DecodeChannelCode
    \/ ChannelPage
    \/ PlaylistNoPlaylist
    \/ PlaylistFetch

Spec == Init /\ [][Next]_vars


(***************************************************************************)
(* Vocabulary of the properties.                                           *)
(***************************************************************************)
\* where the post-metadata request stands in `requests`: first without a login,
\* after the three login requests with one
PostIndex == IF email = None \/ password = None THEN 1 ELSE 4

ApiGet(path) ==
    [method |-> "GET", url |-> "https://www.vlive.tv/globalv-web/vam-web/" \o path,
     referer |-> "https://www.vlive.tv/", query |-> [appId |-> _APP_ID]]

\* the post-metadata call was answered with a record, now in `video`
Fetched ==
    /\ ie = "VLive"
    /\ Len(responses) >= PostIndex
    /\ responses[PostIndex].ok

IsDone == pc = "done"

ReplayPending == Exc("ExtractorError", "Uploading for replay. Please wait...", TRUE, NoCause)
ComingSoon == Exc("ExtractorError", "Coming soon!", TRUE, NoCause)
Canceled ==
    Exc("ExtractorError", "We are sorry, but the live broadcast has been canceled.", TRUE, NoCause)
UnknownStatus(s) == Exc("ExtractorError", "Unknown status " \o s, FALSE, NoCause)
UnknownStatusErrors == { UnknownStatus(s) : s \in (Statuses \ {None}) \cup {"None", ""} }
UnableToLogIn == Exc("ExtractorError", "Unable to log in", TRUE, NoCause)
LoginRequired(m) ==
    Exc("ExtractorError",
        m \o ". Use --username and --password or --netrc to provide account credentials.",
        TRUE, NoCause)

\* the reference to the single video `id`
VideoRef(id) ==
    [_type |-> "url", url |-> "http://www.vlive.tv/video/" \o id, ie_key |-> "VLive", id |-> id]

(***************************************************************************)
(* C1: a fetched record with type LIVE and status ENDED ends the           *)
(* extraction with the expected error 'Uploading for replay. Please        *)
(* wait...', whatever its exposeStatus (CANCEL included): never the        *)
(* canceled error, never the unknown-status error, and with no request     *)
(* after the post-metadata call.                                           *)
(***************************************************************************)
C1_EndedRaisesReplayPending ==
    (Fetched /\ video.type = "LIVE" /\ video.status = "ENDED")
        => /\ Len(requests) = PostIndex
           /\ pc \in {"dispatch", "done"}
           /\ IsDone => result = Raised(ReplayPending)

C1_Witness ==
    /\ Fetched /\ IsDone
    /\ video.type = "LIVE" /\ video.status = "ENDED" /\ video.exposeStatus = "CANCEL"
    /\ result.kind = "raised"

(***************************************************************************)
(* C2: every fetched record that is not VOD, LIVE/ON_AIR, LIVE/ENDED,      *)
(* LIVE/RESERVED or LIVE with exposeStatus CANCEL ends the extraction with *)
(* a generic (not expected) error naming the unrecognized status; the      *)
(* extraction never returns without a descriptor and without an error.     *)
(***************************************************************************)
Recognized(v) ==
    \/ v.type = "VOD"
    \/ v.type = "LIVE" /\ v.status \in {"ON_AIR", "ENDED", "RESERVED"}
    \/ v.type = "LIVE" /\ v.exposeStatus = "CANCEL"

C2_OtherCombinationsRaiseUnknownStatus ==
    (Fetched /\ IsDone /\ ~Recognized(video))
        => /\ result.kind = "raised"
           /\ result.exc \in UnknownStatusErrors

(***************************************************************************)
(* C3: for a fetched record with type VOD, whatever its status and         *)
(* exposeStatus: the request after the post-metadata call is the inkey     *)
(* call for the same video id; the shared extractor is called only after   *)
(* that call has returned, at most once, with (the video id, the record's  *)
(* vodId, the inkey that call returned), and it is called whenever the     *)
(* inkey call returned a key and the record holds a vodId; there is no     *)
(* playInfo call and no status error.  A descriptor is returned only out   *)
(* of that delegation.                                                     *)
(***************************************************************************)
StatusErrors == {ReplayPending, ComingSoon, Canceled, TypeError} \cup UnknownStatusErrors

C3_VodDelegatesWithFetchedInkey ==
    (Fetched /\ video.type = "VOD")
        => LET p == PostIndex
               n == Len(requests)
           IN  /\ n <= p + 2
               /\ pc # "dispatch" => /\ n >= p + 1
                                     /\ requests[p + 1] =
                                            ApiGet("video/v1.0/vod/" \o video_id \o "/inkey")
               /\ n = p + 2 => /\ responses[p + 1].ok
                               /\ requests[p + 2] =
                                      [method |-> "_extract_video_info",
                                       args |-> <<video_id, video.vodId, responses[p + 1].body>>]
                               /\ video.vodId # Missing
                               /\ responses[p + 1].body # Missing
                               /\ IsDone
               /\ (n = p + 1 /\ responses[p + 1].ok /\ responses[p + 1].body # Missing
                       /\ video.vodId # Missing)
                     => pc = "vod_extract"
               /\ result.kind = "raised" => result.exc \notin StatusErrors
               /\ result.kind = "returned"
                     => /\ n = p + 2 /\ responses[p + 2].ok
                        /\ result.value._type = "video"
                        /\ result.value.id = video_id
                        /\ result.value.formats = <<video_id, video.vodId, responses[p + 1].body>>

C3_Witness ==
    /\ Fetched /\ IsDone
    /\ video.type = "VOD" /\ video.status = "ENDED" /\ video.exposeStatus = "CANCEL"
    /\ result.kind = "returned"
    /\ requests[Len(requests)].method = "_extract_video_info"

(***************************************************************************)
(* C4: when the post-metadata call fails, the extraction ends there, with  *)
(* no further request.  On an HTTP 403 whose body carries a message, what  *)
(* is raised is the login-required error with that message; on any other   *)
(* failure (another HTTP code, no HTTP cause) it is the failure itself,    *)
(* unmodified.                                                             *)
(***************************************************************************)
PostFailed ==
    /\ ie = "VLive"
    /\ Len(responses) >= PostIndex
    /\ ~responses[PostIndex].ok

PageRequest(seq, n) ==
    [method |-> "GET",
     url |-> "http://api.vfan.vlive.tv/vproxy/channelplus/getChannelVideoList",
     query |-> [app_id |-> _APP_ID, channelSeq |-> seq, maxNumOfRows |-> 100, pageNo |-> n]]

\* the page lists videos: its videoList is a list and holds an item
ListsVideos(body) == body.videoList.type = "list" /\ body.videoList.items # <<>>

HasId(item) == item.has /\ item.videoSeq # 0

\* the references to the identifiers of one page, in the page's order
RefsOfPage(body) ==
    LET ids == SelectSeq(body.videoList.items, HasId)
    IN  [i \in 1..Len(ids) |-> VideoRef(compat_str(ids[i].videoSeq))]

\* the references of the pages responses[from..to], in page order
RECURSIVE RefsOfPages(_, _)
RefsOfPages(from, to) ==
    IF from > to THEN <<>>
    ELSE RefsOfPages(from, to - 1) \o RefsOfPage(responses[to].body)

C5_ChannelPagination ==
    ie = "VLiveChannel"
        => LET n == Len(requests)
           IN  /\ \A i \in 2..n :
                     /\ responses[1].ok
                     /\ requests[i] = PageRequest(responses[1].body, i - 1)
                     /\ (i < n \/ pc = "page")
                            => (responses[i].ok /\ ListsVideos(responses[i].body))
               /\ (n >= 2 /\ responses[n].ok /\ ~ListsVideos(responses[n].body))
                     => (IsDone /\ result.kind = "returned")
               /\ result.kind = "returned"
                     => /\ n >= 2 /\ responses[n].ok /\ ~ListsVideos(responses[n].body)
                        /\ result.value._type = "playlist"
                        /\ result.value.entries = RefsOfPages(2, n - 1)

C5_Witness ==
    /\ ie = "VLiveChannel" /\ IsDone /\ result.kind = "returned"
    /\ Len(requests) >= 4
    /\ Len(result.value.entries) >= 3
    /\ \E i, j \in 1..Len(result.value.entries) :
          i < j /\ result.value.entries[i] = result.value.entries[j]

(***************************************************************************)
(* C6: without the no-playlist flag, a host page that holds no             *)
(* playlistVideoSeqs list, or an empty one, gives the reference to the     *)
(* single video of the URL: no error and no playlist.                      *)
(***************************************************************************)
\* nothing but white space stands between the brackets
EmptyList(inner) == \A i \in 1..Len(inner) : inner[i] = " "

C6_NoOrEmptySeqsFallsBack ==
    (/\ ie = "VLivePlaylist" /\ ~noplaylist /\ IsDone
     /\ responses[1].ok
     /\ (~responses[1].body.assigned \/ EmptyList(responses[1].body.inner)))
        => result = Returned(VideoRef(video_id))

(***************************************************************************)
(* C7: with the no-playlist flag set, the playlist extractor issues no     *)
(* request at all and returns the reference to the single video of the     *)
(* URL.                                                                    *)
(***************************************************************************)
C7_NoPlaylistFetchesNothing ==
    (ie = "VLivePlaylist" /\ noplaylist)
        => /\ requests = <<>>
           /\ IsDone => result = Returned(VideoRef(video_id))

C7_Witness ==
    /\ ie = "VLivePlaylist" /\ noplaylist /\ IsDone
    /\ result.kind = "returned"

(***************************************************************************)
(* C8: with an email and a password, the requests of _login come in the    *)
(* order: fetch of the login page, form submission with the credentials,   *)
(* session-info query, each one only after the one before was answered;    *)
(* 'Unable to log in' (expected) is raised if and only if the session-info *)
(* answer's login flag is not the boolean true, and the extraction goes on *)
(* only when it is.                                                        *)
(***************************************************************************)
FlagIsTrue(flag) == flag.type = "bool" /\ flag.truthy

C8_LoginOrder ==
    (ie = "VLive" /\ email # None /\ password # None)
        => LET n == Len(requests)
           IN  /\ pc # "login" => n >= 1
               /\ n >= 1 => requests[1] =
                     [method |-> "GET", url |-> "https://www.vlive.tv/auth/email/login"]
               /\ n >= 2 => /\ responses[1].ok
                            /\ requests[2] =
                                  [method |-> "POST",
                                   url |-> "https://www.vlive.tv/auth/email/login",
                                   data |-> [email |-> email, pwd |-> password],
                                   referer |-> "https://www.vlive.tv/auth/email/login"]
               /\ n >= 3 => /\ responses[2].ok
                            /\ requests[3] =
                                  [method |-> "GET", url |-> "https://www.vlive.tv/auth/loginInfo",
                                   referer |-> "https://www.vlive.tv/home"]
               /\ (n >= 3 /\ responses[3].ok)
                     => (result = Raised(UnableToLogIn) <=> ~FlagIsTrue(responses[3].body))
               /\ result = Raised(UnableToLogIn) => (n = 3 /\ responses[3].ok)
               /\ (n >= 4 \/ pc = "extract") => (responses[3].ok /\ FlagIsTrue(responses[3].body))

C8_Witness ==
    /\ ie = "VLive" /\ email # None /\ password # None /\ IsDone
    /\ Len(responses) = 3 /\ responses[3].ok
    /\ responses[3].body.type = "str"
    /\ result = Raised(UnableToLogIn)

(***************************************************************************)
(* C9: whatever is returned for a fetched record with type LIVE is a       *)
(* descriptor with is_live = true and the video id of the URL, the         *)
(* record's status is ON_AIR, and the playInfo call for that video id was  *)
(* made and answered before; for every other status of a LIVE record       *)
(* nothing is returned.                                                    *)
(***************************************************************************)
C9_LiveDescriptorOnlyOnAir ==
    (Fetched /\ video.type = "LIVE" /\ result.kind = "returned")
        => LET p == PostIndex
           IN  /\ result.value._type = "video"
               /\ result.value.is_live = TRUE
               /\ result.value.id = video_id
               /\ video.status = "ON_AIR"
               /\ Len(requests) >= p + 1
               /\ requests[p + 1] = ApiGet("old/v3/live/" \o video_id \o "/playInfo")
               /\ responses[p + 1].ok

C9_Witness ==
    /\ Fetched /\ IsDone /\ video.type = "LIVE"
    /\ result.kind = "returned"

(***************************************************************************)
(* C10: with the email or the password missing, _login issues no request   *)
(* (no login-page fetch, no form submission, no session-info query) and    *)
(* raises nothing: the first request is the post-metadata call, and the    *)
(* login-required error is raised only when that call is answered with     *)
(* HTTP 403.                                                               *)
(***************************************************************************)
LoginUrls == {"https://www.vlive.tv/auth/email/login", "https://www.vlive.tv/auth/loginInfo"}

IsLoginRequired(e) ==
    \E m \in {b.message : b \in ErrorBodies} \ {Missing} : e = LoginRequired(m)

C10_MissingCredentialsNoLogin ==
    (ie = "VLive" /\ (email = None \/ password = None))
        => /\ \A i \in 1..Len(requests) :
                 requests[i].method \in {"GET", "POST"} => requests[i].url \notin LoginUrls
           /\ result # Raised(UnableToLogIn)
           /\ pc \notin {"login_form", "login_info"}
           /\ Len(requests) >= 1
                 => requests[1] =
                       [method |-> "GET",
                        url |-> "https://www.vlive.tv/globalv-web/vam-web/post/v1.0/officialVideoPost-"
                                    \o video_id,
                        referer |-> "https://www.vlive.tv/",
                        query |-> [appId |-> _APP_ID, fields |-> PostFields]]
           /\ IsDone => Len(requests) >= 1
           /\ (result.kind = "raised" /\ IsLoginRequired(result.exc))
                 => /\ Len(requests) = 1
                    /\ ~responses[1].ok
                    /\ responses[1].exc.cause.kind = "HTTPError"
                    /\ responses[1].exc.cause.code = 403

C10_Witness ==
    /\ ie = "VLive" /\ email # None /\ password = None /\ IsDone
    /\ result.kind = "raised" /\ IsLoginRequired(result.exc)

====
